---------------------------- MODULE Spec2Model ----------------------------
(***************************************************************************)
(* A model of the resume-screening service of src/app.py: the upload       *)
(* handler with its text extraction and upload directory, the              *)
(* process_resume handler with its two blocking LLM calls (several         *)
(* requests may be in flight at once), the candidate listing and the       *)
(* single-table store.                                                     *)
(*                                                                         *)
(* Texts are TLA+ strings.  TLC cannot index a string, so Chars(t) gives   *)
(* the characters of every text whose characters the code inspects, and    *)
(* Join builds a text back from characters.  An LLM completion for the     *)
(* parsing step is a sequence of tokens (a fence marker, white space,      *)
(* prose, or a whole JSON document); an evaluation text is a string.       *)
(* A REAL score is the integer it equals (float("90") = 90.0).             *)
(***************************************************************************)
EXTENDS Integers, Sequences, FiniteSets, Bags, TLC

VARIABLES
    resumes,    \* the rows of table resumes, in insertion order
    files,      \* the upload directory: file name -> file content
    inflight,   \* the bag of process_resume requests blocked in an LLM call
    started,    \* process_resume requests that reached the LLM so far
    last,       \* the most recent HTTP response (with the request's file name)
    runlog      \* per resume id: what the LLM returned in the run stored last

vars == <<resumes, files, inflight, started, last, runlog>>

\* Bounds of the model.
MaxRows == 2
MaxRuns == 2

----------------------------------------------------------------------------
(* Characters and strings *)

Chars(t) ==
  CASE t = "" -> <<>>
    [] t = "a.pdf" -> <<"a", ".", "p", "d", "f">>
    [] t = "B.DOCX" -> <<"B", ".", "D", "O", "C", "X">>
    [] t = "c.txt" -> <<"c", ".", "t", "x", "t">>
    [] t = ".pdf" -> <<".", "p", "d", "f">>
    [] t = ".docx" -> <<".", "d", "o", "c", "x">>
    [] t = "score:" -> <<"s", "c", "o", "r", "e", ":">>
    [] t = "/100" -> <<"/", "1", "0", "0">>
    [] t = "J" -> <<"J">>
    [] t = "D" -> <<"D">>
    [] t = " \n" -> <<" ", "\n">>
    [] t = "JD" -> <<"J", "D">>
    [] t = "Al " -> <<"A", "l", " ">>
    [] t = "  " -> <<" ", " ">>
    [] t = " Dev " -> <<" ", "D", "e", "v", " ">>
    [] t = "Dev" -> <<"D", "e", "v">>
    [] t = "Score: 90/100. Strong fit." -> <<"S", "c", "o", "r", "e", ":", " ", "9", "0", "/", "1", "0", "0", ".", " ", "S", "t", "r", "o", "n", "g", " ", "f", "i", "t", ".">>
    [] t = "Fit summary. score:  40/100" -> <<"F", "i", "t", " ", "s", "u", "m", "m", "a", "r", "y", ".", " ", "s", "c", "o", "r", "e", ":", " ", " ", "4", "0", "/", "1", "0", "0">>
    [] t = "Score: 150/100" -> <<"S", "c", "o", "r", "e", ":", " ", "1", "5", "0", "/", "1", "0", "0">>
    [] t = "Evaluation failed: Could not get a response from Gemini." -> <<"E", "v", "a", "l", "u", "a", "t", "i", "o", "n", " ", "f", "a", "i", "l", "e", "d", ":", " ", "C", "o", "u", "l", "d", " ", "n", "o", "t", " ", "g", "e", "t", " ", "a", " ", "r", "e", "s", "p", "o", "n", "s", "e", " ", "f", "r", "o", "m", " ", "G", "e", "m", "i", "n", "i", ".">>

RECURSIVE Join(_)
Join(cs) == IF cs = <<>> THEN "" ELSE Head(cs) \o Join(Tail(cs))

\* str.lower() of one character
LowerOf == [A |-> "a", B |-> "b", C |-> "c", D |-> "d", E |-> "e", F |-> "f",
            G |-> "g", H |-> "h", I |-> "i", J |-> "j", K |-> "k", L |-> "l",
            M |-> "m", N |-> "n", O |-> "o", P |-> "p", Q |-> "q", R |-> "r",
            S |-> "s", T |-> "t", U |-> "u", V |-> "v", W |-> "w", X |-> "x",
            Y |-> "y", Z |-> "z"]
UpperLetters == DOMAIN LowerOf
Lower(c) == IF c \in UpperLetters THEN LowerOf[c] ELSE c

LowerChars(cs) == [i \in DOMAIN cs |-> Lower(cs[i])]

IsSpace(c) == c \in {" ", "\t", "\n", "\r"}

Digits == <<"0", "1", "2", "3", "4", "5", "6", "7", "8", "9">>
DigitChars == {Digits[i] : i \in DOMAIN Digits}
IsDigit(c) == c \in DigitChars
DigitVal(c) == (CHOOSE i \in DOMAIN Digits : Digits[i] = c) - 1

\* str.strip(), on characters
RECURSIVE LStripChars(_)
LStripChars(cs) ==
    IF cs # <<>> /\ IsSpace(Head(cs)) THEN LStripChars(Tail(cs)) ELSE cs
RECURSIVE RStripChars(_)
RStripChars(cs) ==
    IF cs # <<>> /\ IsSpace(cs[Len(cs)])
    THEN RStripChars(SubSeq(cs, 1, Len(cs) - 1)) ELSE cs
StripChars(cs) == RStripChars(LStripChars(cs))
Strip(t) == Join(StripChars(Chars(t)))

\* whether the characters cs carry the literal lit at position i
HasAt(cs, i, lit) ==
    /\ i >= 1
    /\ i + Len(lit) - 1 <= Len(cs)
    /\ \A k \in 1..Len(lit) : cs[i + k - 1] = lit[k]

\* filename.lower().endswith(suffix)
LowerEndsWith(name, suffix) ==
    LET cs == LowerChars(Chars(name))
        sf == Chars(suffix)
    IN  HasAt(cs, Len(cs) - Len(sf) + 1, sf)

----------------------------------------------------------------------------
(* JSON: json.loads and json.dumps on the documents the LLM may return *)

Str(s) == [t |-> "str", v |-> s]
Num(s) == [t |-> "num", v |-> s]

\* A decoded JSON value.  keys is the set of keys of an object; a field whose
\* key is absent holds a filler that is never read.
JsonValue(t, keys, name, email, summary, skills) ==
    [t |-> t, keys |-> keys, name |-> name, email |-> email,
     summary |-> summary, skills |-> skills]

NoneV  == JsonValue("null", {}, "", "", "", <<>>)      \* Python None
ListV  == JsonValue("list", {}, "", "", "", <<>>)      \* []
EmptyV == JsonValue("dict", {}, "", "", "", <<>>)      \* {}
AnnV   == JsonValue("dict", {"name", "email", "summary", "skills"},
                    "Ann", "ann@x.com", "Python dev", <<Str("py"), Str("sql")>>)
NumSkillsV == JsonValue("dict", {"skills"}, "", "", "", <<Num("1")>>)

JsonAnn        == "{\"name\": \"Ann\", \"email\": \"ann@x.com\", \"summary\": \"Python dev\", \"skills\": [\"py\", \"sql\"]}"
JsonAnnCompact == "{\"name\":\"Ann\",\"email\":\"ann@x.com\",\"summary\":\"Python dev\",\"skills\":[\"py\",\"sql\"]}"
JsonEmpty      == "{}"
JsonList       == "[]"
JsonNull       == "null"
JsonNumSkills  == "{\"skills\": [1]}"
JsonBad        == "{\"name\": \"Ann\", "

\* json.loads: ok = FALSE stands for the JSONDecodeError
Loads(text) ==
    CASE text = JsonAnn        -> [ok |-> TRUE, v |-> AnnV]
      [] text = JsonAnnCompact -> [ok |-> TRUE, v |-> AnnV]
      [] text = JsonEmpty      -> [ok |-> TRUE, v |-> EmptyV]
      [] text = JsonList       -> [ok |-> TRUE, v |-> ListV]
      [] text = JsonNull       -> [ok |-> TRUE, v |-> NoneV]
      [] text = JsonNumSkills  -> [ok |-> TRUE, v |-> NumSkillsV]
      [] OTHER                 -> [ok |-> FALSE, v |-> NoneV]

\* json.dumps with its default separators
Dumps(v) ==
    CASE v = AnnV       -> JsonAnn
      [] v = EmptyV     -> JsonEmpty
      [] v = ListV      -> JsonList
      [] v = NoneV      -> JsonNull
      [] v = NumSkillsV -> JsonNumSkills

\* dict.get(key, default) for the string fields, and for skills
DictGet(v, key, default) == IF key \in v.keys THEN v[key] ELSE default
DictGetSkills(v) == IF "skills" \in v.keys THEN v.skills ELSE <<>>

----------------------------------------------------------------------------
(* The LLM client functions *)

\* The fence markers.  SANY's lexer rejects a backquote, so the model writes
\* the three backquotes of a fence as three apostrophes.
FenceJson == "'''json"
Fence     == "'''"

IsSpaceToken(tok) == tok \in {" ", "\n"}

RECURSIVE LStripTokens(_)
LStripTokens(ts) ==
    IF ts # <<>> /\ IsSpaceToken(Head(ts)) THEN LStripTokens(Tail(ts)) ELSE ts
RECURSIVE RStripTokens(_)
RStripTokens(ts) ==
    IF ts # <<>> /\ IsSpaceToken(ts[Len(ts)])
    THEN RStripTokens(SubSeq(ts, 1, Len(ts) - 1)) ELSE ts
StripTokens(ts) == RStripTokens(LStripTokens(ts))

\* re.search(r'<fence>json\s*(.*?)\s*<fence>', json_str, re.DOTALL): the
\* leftmost tagged marker that has a fence after it, and the shortest text
\* between them.  A later tagged marker also begins with a fence.
FenceSearch(ts) ==
    LET opens == {i \in DOMAIN ts :
                    /\ ts[i] = FenceJson
                    /\ \E j \in DOMAIN ts : j > i /\ ts[j] \in {Fence, FenceJson}}
    IN  IF opens = {}
        THEN [found |-> FALSE, group |-> <<>>]
        ELSE LET i == CHOOSE a \in opens : \A b \in opens : a <= b
                 j == CHOOSE a \in DOMAIN ts :
                        /\ a > i /\ ts[a] \in {Fence, FenceJson}
                        /\ \A b \in DOMAIN ts :
                              (b > i /\ ts[b] \in {Fence, FenceJson}) => a <= b
             IN  [found |-> TRUE, group |-> StripTokens(SubSeq(ts, i + 1, j - 1))]

\* parse_resume_with_gemini, from the LLM's answer on: the decoded value, or
\* None when the call raised or the text did not decode.
parse_resume_with_gemini(response) ==
    IF response.raises
    THEN NoneV
    ELSE LET match == FenceSearch(response.text)
             cleaned_json_str == IF match.found
                                 THEN Join(StripTokens(match.group))
                                 ELSE Join(StripTokens(response.text))
             decoded == Loads(cleaned_json_str)
         IN  IF decoded.ok THEN decoded.v ELSE NoneV

\* evaluate_candidate_with_gemini builds its prompt before its try block:
\* ', '.join(skills) raises TypeError on an item that is no string.
PromptRaises(skills) == \E i \in DOMAIN skills : skills[i].t # "str"

EvaluationFailed == "Evaluation failed: Could not get a response from Gemini."

\* Variant of evaluate_candidate_with_gemini: the empty text on a failed call.
EvaluateReturnsEmpty(response) == IF response.raises THEN "" ELSE response.text

\* evaluate_candidate_with_gemini, from the LLM's answer on
evaluate_candidate_with_gemini(response) ==
    IF response.raises THEN EvaluationFailed ELSE response.text

\* the literal lit (in lower case) at position i of cs, letters compared
\* without regard to case
HasAtIgnoreCase(cs, i, lit) ==
    /\ i >= 1
    /\ i + Len(lit) - 1 <= Len(cs)
    /\ \A k \in 1..Len(lit) : Lower(cs[i + k - 1]) = lit[k]

\* the first position from i on that holds no white space (\s*), no digit (\d*)
RECURSIVE SpanSpaces(_, _)
SpanSpaces(cs, i) ==
    IF i <= Len(cs) /\ IsSpace(cs[i]) THEN SpanSpaces(cs, i + 1) ELSE i
RECURSIVE SpanDigits(_, _)
SpanDigits(cs, i) ==
    IF i <= Len(cs) /\ IsDigit(cs[i]) THEN SpanDigits(cs, i + 1) ELSE i

\* re.search(r'Score:\s*(\d+)/100', text, re.IGNORECASE) tried at position i.
\* \s* and \d+ are greedy, and what must follow each cannot start inside it,
\* so no backtracking finds another match.
ScoreLiteral == Chars("score:")
Over100Literal == Chars("/100")
ScoreMatchAt(cs, i) ==
    IF ~HasAtIgnoreCase(cs, i, ScoreLiteral)
    THEN [ok |-> FALSE, digits |-> <<>>]
    ELSE LET j == SpanSpaces(cs, i + Len(ScoreLiteral))
             e == SpanDigits(cs, j)
         IN  [ok |-> e > j /\ HasAt(cs, e, Over100Literal),
              digits |-> SubSeq(cs, j, e - 1)]

\* the leftmost match
RECURSIVE ScoreSearchFrom(_, _)
ScoreSearchFrom(cs, i) ==
    IF i > Len(cs)
    THEN [found |-> FALSE, digits |-> <<>>]
    ELSE LET m == ScoreMatchAt(cs, i)
         IN  IF m.ok THEN [found |-> TRUE, digits |-> m.digits]
             ELSE ScoreSearchFrom(cs, i + 1)

ScoreSearch(cs) == ScoreSearchFrom(cs, 1)

\* float() of a digit string
RECURSIVE DigitsValue(_)
DigitsValue(ds) ==
    IF ds = <<>> THEN 0
    ELSE 10 * DigitsValue(SubSeq(ds, 1, Len(ds) - 1)) + DigitVal(ds[Len(ds)])

\* score = float(score_match.group(1)) if score_match else 0.0
ExtractScore(evaluation_result) ==
    LET score_match == ScoreSearch(Chars(evaluation_result))
    IN  IF score_match.found THEN DigitsValue(score_match.digits) ELSE 0

----------------------------------------------------------------------------
(* Text extraction *)

\* A file's content: its real format, the pages a PDF reader finds (each with
\* the text extract_text gives, or none for a page without text), and the
\* body a DOCX reader finds.
Page(text) == [none |-> FALSE, text |-> text]
NoTextPage == [none |-> TRUE, text |-> ""]
FileContent(fmt, pages, body) == [fmt |-> fmt, pages |-> pages, body |-> body]

RECURSIVE ConcatPages(_)
ConcatPages(pages) ==
    IF pages = <<>> THEN ""
    ELSE (IF Head(pages).none THEN "" ELSE Head(pages).text) \o ConcatPages(Tail(pages))

\* extract_text_from_pdf: a file pypdf cannot read raises before any page is
\* read, and the exception is swallowed into the empty text
extract_text_from_pdf(content) ==
    IF content.fmt = "pdf" THEN ConcatPages(content.pages) ELSE ""

\* extract_text_from_docx
extract_text_from_docx(content) ==
    IF content.fmt = "docx" THEN content.body ELSE ""

----------------------------------------------------------------------------
(* The store: table resumes *)

\* A nullable column holds NULL or Some(value).
NULL == <<>>
Some(v) == <<v>>

\* id INTEGER PRIMARY KEY AUTOINCREMENT: one more than the largest id so far
\* (no statement of the program deletes a row)
NextId(rows) ==
    IF rows = <<>> THEN 1
    ELSE 1 + (CHOOSE m \in {rows[i].id : i \in DOMAIN rows} :
                 \A i \in DOMAIN rows : rows[i].id <= m)

\* INSERT INTO resumes (filename, text_content) VALUES (?, ?)
InsertResume(rows, filename, text_content) ==
    Append(rows, [id |-> NextId(rows), filename |-> filename,
                  text_content |-> text_content, parsed_data |-> NULL,
                  score |-> NULL, job_match_summary |-> NULL])

\* Variants of the UPDATE statement: an INSERT in its place, the WHERE clause
\* left out, and parsed_data written alone.
UpdateAsInsert(rows, resume_id, parsed_data, score, job_match_summary) ==
    Append(rows, [id |-> NextId(rows), filename |-> "", text_content |-> "",
                  parsed_data |-> Some(parsed_data), score |-> Some(score),
                  job_match_summary |-> Some(job_match_summary)])
UpdateWithoutWhere(rows, resume_id, parsed_data, score, job_match_summary) ==
    [i \in DOMAIN rows |->
        [rows[i] EXCEPT !.parsed_data = Some(parsed_data),
                        !.score = Some(score),
                        !.job_match_summary = Some(job_match_summary)]]
UpdateParsedDataOnly(rows, resume_id, parsed_data, score, job_match_summary) ==
    [i \in DOMAIN rows |->
        IF rows[i].id = resume_id
        THEN [rows[i] EXCEPT !.parsed_data = Some(parsed_data)]
        ELSE rows[i]]

\* UPDATE resumes SET parsed_data = ?, score = ?, job_match_summary = ? WHERE id = ?
UpdateResume(rows, resume_id, parsed_data, score, job_match_summary) ==
    [i \in DOMAIN rows |->
        IF rows[i].id = resume_id
        THEN [rows[i] EXCEPT !.parsed_data = Some(parsed_data),
                             !.score = Some(score),
                             !.job_match_summary = Some(job_match_summary)]
        ELSE rows[i]]

\* SELECT ... FROM resumes WHERE id = ?
SelectById(rows, resume_id) == {rows[i] : i \in {k \in DOMAIN rows : rows[k].id = resume_id}}

----------------------------------------------------------------------------
(* HTTP responses *)

Response(op, code, error) ==
    [op |-> op, code |-> code, error |-> error, resume_id |-> 0, filename |-> "",
     parsed_data |-> NoneV, evaluation |-> "", score |-> NULL,
     job_match_summary |-> NULL, candidates |-> <<>>, calls |-> <<>>]

NoResponse == Response("none", 0, "")

\* An uncaught exception: the framework's 500
Unhandled(op, exception) == Response(op, 500, exception)

----------------------------------------------------------------------------
(* POST /upload *)

\* file.save(filepath)
SaveFile(fs, path, content) ==
    [n \in DOMAIN fs \cup {path} |-> IF n = path THEN content ELSE fs[n]]

\* Variant of os.remove: the file is left in place.
KeepFile(fs, path) == fs

\* os.remove(filepath)
RemoveFile(fs, path) == [n \in DOMAIN fs \ {path} |-> fs[n]]

\* upload_resume: the store, the upload directory and the response it leaves.
\* The response carries the request's file name.
upload_resume(rows, fs, request) ==
    IF ~request.has_file
    THEN [resumes |-> rows, files |-> fs,
          resp |-> Response("upload", 400, "No file part in the request.")]
    ELSE IF request.filename = ""
    THEN [resumes |-> rows, files |-> fs,
          resp |-> Response("upload", 400, "No selected file.")]
    ELSE
    LET filename == request.filename
        saved    == SaveFile(fs, filename, request.content)
        is_pdf   == LowerEndsWith(filename, ".pdf")
        is_docx  == LowerEndsWith(filename, ".docx")
        text_content ==
            IF is_pdf THEN extract_text_from_pdf(saved[filename])
            ELSE IF is_docx THEN extract_text_from_docx(saved[filename])
            ELSE ""
    IN  IF ~is_pdf /\ ~is_docx
        THEN [resumes |-> rows, files |-> RemoveFile(saved, filename),
              resp |-> [Response("upload", 400, "Unsupported file type. Please upload PDF or DOCX.")
                           EXCEPT !.filename = filename]]
        ELSE IF Strip(text_content) = ""
        THEN [resumes |-> rows, files |-> RemoveFile(saved, filename),
              resp |-> [Response("upload", 500, "Could not extract readable text from the resume. Please check the file content.")
                           EXCEPT !.filename = filename]]
        ELSE [resumes |-> InsertResume(rows, filename, text_content),
              files |-> saved,
              resp |-> [Response("upload", 200, "")
                           EXCEPT !.resume_id = NextId(rows), !.filename = filename]]

----------------------------------------------------------------------------
(* POST /process_resume/<resume_id> *)

\* A request blocked in an LLM call: where it is, its local variables, and
\* the LLM calls it has made so far.
ProcessRequest(pc, resume_id, job_description, resume_text, parsed_data, calls) ==
    [pc |-> pc, resume_id |-> resume_id, job_description |-> job_description,
     resume_text |-> resume_text, parsed_data |-> parsed_data, calls |-> calls]

NoRequest == ProcessRequest("none", 0, "", "", NoneV, <<>>)

\* What a step of the handler leaves: the store, and either the response
\* (done) or the request as it blocks in its next LLM call.
Outcome(rows, done, resp, req) ==
    [resumes |-> rows, done |-> done, resp |-> resp, req |-> req]

\* From the request's arrival to the parsing call to the LLM.
process_begin(rows, resume_id, body) ==
    LET job_description ==
            Strip(IF body.has_jd THEN body.job_description ELSE "")
        result == SelectById(rows, resume_id)
    IN  IF job_description = ""
        THEN Outcome(rows, TRUE,
                     Response("process", 400, "Job description is required for processing."),
                     NoRequest)
        ELSE IF result = {}
        THEN Outcome(rows, TRUE,
                     Response("process", 404, "Resume not found in database."),
                     NoRequest)
        ELSE Outcome(rows, FALSE, NoResponse,
                     ProcessRequest("parse", resume_id, job_description,
                                    (CHOOSE r \in result : TRUE).text_content,
                                    NoneV, <<"parse_call">>))

\* Variants of the handler's answer to a failed parse: the failure is noted
\* in the row before the 500; the parsing call is made again.
ParseFailedNoted(rows, r) ==
    Outcome(UpdateResume(rows, r.resume_id, JsonNull, 0, "Parsing failed."), TRUE,
            [Response("process", 500, "Failed to parse resume with Gemini. Check API key, model availability, or response format.")
                EXCEPT !.calls = Append(r.calls, "parse_return")],
            NoRequest)
ParseFailedRetried(rows, r) ==
    Outcome(rows, FALSE, NoResponse,
            [r EXCEPT !.calls = Append(Append(r.calls, "parse_return"), "parse_call")])

\* if parsed_data is None: return ... 500
parse_failed(rows, r) ==
    Outcome(rows, TRUE,
            [Response("process", 500, "Failed to parse resume with Gemini. Check API key, model availability, or response format.")
                EXCEPT !.calls = Append(r.calls, "parse_return")],
            NoRequest)

\* From the parsing call's return to the evaluation call to the LLM.
process_parsed(rows, r, response) ==
    LET parsed_data == parse_resume_with_gemini(response)
        calls == Append(r.calls, "parse_return")
    IN  IF parsed_data = NoneV
        THEN parse_failed(rows, r)
        ELSE IF parsed_data.t # "dict"
        THEN Outcome(rows, TRUE,
                     [Unhandled("process", "AttributeError") EXCEPT !.calls = calls],
                     NoRequest)
        ELSE IF PromptRaises(DictGetSkills(parsed_data))
        THEN Outcome(rows, TRUE,
                     [Unhandled("process", "TypeError") EXCEPT !.calls = calls],
                     NoRequest)
        ELSE Outcome(rows, FALSE, NoResponse,
                     [r EXCEPT !.pc = "evaluate", !.parsed_data = parsed_data,
                               !.calls = Append(calls, "evaluate_call")])

\* From the evaluation call's return to the response.
process_evaluated(rows, r, response) ==
    LET evaluation_result == evaluate_candidate_with_gemini(response)
        score == ExtractScore(evaluation_result)
        calls == Append(Append(r.calls, IF response.raises THEN "evaluate_raise"
                                                           ELSE "evaluate_return"),
                        "update")
    IN  Outcome(UpdateResume(rows, r.resume_id, Dumps(r.parsed_data), score,
                             evaluation_result),
                TRUE,
                [Response("process", 200, "") EXCEPT
                    !.resume_id = r.resume_id, !.parsed_data = r.parsed_data,
                    !.evaluation = evaluation_result, !.score = Some(score),
                    !.calls = calls],
                NoRequest)

----------------------------------------------------------------------------
(* GET /candidates and GET /candidate_details/<resume_id> *)

\* Variant of the ordering: score ASC.
ScoreNotAbove(a, b) == a = NULL \/ (b # NULL /\ a[1] <= b[1])

\* score DESC, as SQLite orders a nullable column: NULL sorts below every number
ScoreNotBelow(a, b) == b = NULL \/ (a # NULL /\ a[1] >= b[1])

OrderedByScoreDesc(rows) ==
    \A i \in DOMAIN rows : \A j \in DOMAIN rows :
        i < j => ScoreNotBelow(rows[i].score, rows[j].score)

\* json.loads(parsed_data_json) if parsed_data_json else {}
StoredProfile(row) ==
    IF row.parsed_data = NULL THEN EmptyV ELSE Loads(row.parsed_data[1]).v

CandidateEntry(row) ==
    [id |-> row.id, filename |-> row.filename,
     name |-> DictGet(StoredProfile(row), "name", "N/A"),
     email |-> DictGet(StoredProfile(row), "email", "N/A"),
     score |-> row.score, job_match_summary |-> row.job_match_summary]

\* get_candidates: the answers the query's ORDER BY allows (rows of equal
\* score come in an order SQL leaves open)
get_candidates(rows) ==
    LET n == Len(rows)
        perms == {p \in [1..n -> 1..n] : \A i \in 1..n : \A j \in 1..n : i # j => p[i] # p[j]}
        fetched == {[i \in 1..n |-> rows[p[i]]] : p \in perms}
    IN  {[i \in 1..n |-> CandidateEntry(f[i])] : f \in {g \in fetched : OrderedByScoreDesc(g)}}

get_candidate_details(rows, resume_id) ==
    LET result == SelectById(rows, resume_id)
    IN  IF result = {}
        THEN Response("details", 404, "Candidate not found.")
        ELSE LET row == CHOOSE r \in result : TRUE
             IN  [Response("details", 200, "") EXCEPT
                     !.resume_id = resume_id, !.filename = row.filename,
                     !.parsed_data = StoredProfile(row), !.score = row.score,
                     !.job_match_summary = row.job_match_summary]

----------------------------------------------------------------------------
(* The requests and LLM answers the model draws from *)

GoodPdf  == FileContent("pdf", <<Page("J"), NoTextPage, Page("D")>>, "")
BlankPdf == FileContent("pdf", <<NoTextPage, Page(" \n")>>, "")
GoodDocx == FileContent("docx", <<>>, "Al ")

UploadRequests ==
    {[has_file |-> FALSE, filename |-> "", content |-> GoodPdf],
     [has_file |-> TRUE, filename |-> "", content |-> GoodPdf],
     [has_file |-> TRUE, filename |-> "c.txt", content |-> GoodPdf],
     [has_file |-> TRUE, filename |-> "a.pdf", content |-> GoodPdf],
     [has_file |-> TRUE, filename |-> "a.pdf", content |-> BlankPdf],
     [has_file |-> TRUE, filename |-> "a.pdf", content |-> GoodDocx],
     [has_file |-> TRUE, filename |-> "B.DOCX", content |-> GoodDocx],
     [has_file |-> TRUE, filename |-> "B.DOCX", content |-> GoodPdf]}

ProcessBodies ==
    {[has_jd |-> FALSE, job_description |-> ""],
     [has_jd |-> TRUE, job_description |-> "  "],
     [has_jd |-> TRUE, job_description |-> " Dev "]}

Completions ==
    {<<FenceJson, "\n", JsonAnn, "\n", Fence>>,
     <<"Here is the data:", "\n", FenceJson, "\n", JsonEmpty, "\n", Fence, "\n", "Done.">>,
     <<" ", JsonAnnCompact, "\n">>,
     <<"Sure!", " ", JsonAnn>>,
     <<FenceJson, JsonBad, Fence>>,
     <<FenceJson, Fence>>,
     <<Fence, "\n", JsonAnn, "\n", Fence>>,
     <<JsonNull>>,
     <<FenceJson, JsonList, Fence>>,
     <<FenceJson, "\n", JsonNumSkills, Fence>>}

ParseResponses ==
    {[raises |-> TRUE, text |-> <<>>]}
    \cup {[raises |-> FALSE, text |-> c] : c \in Completions}

EvaluationTexts ==
    {"Score: 90/100. Strong fit.",
     "Fit summary. score:  40/100",
     "Score: 150/100"}

EvalResponses ==
    {[raises |-> TRUE, text |-> ""]}
    \cup {[raises |-> FALSE, text |-> t] : t \in EvaluationTexts}

----------------------------------------------------------------------------
(* The state machine *)

Init ==
    /\ resumes = <<>>
    /\ files = <<>>
    /\ inflight = EmptyBag
    /\ started = 0
    /\ last = NoResponse
    /\ runlog = <<>>

\* One upload request, handled from arrival to response.
Upload ==
    \E request \in UploadRequests :
        \E out \in {upload_resume(resumes, files, request)} :
            /\ Len(out.resumes) <= MaxRows
            /\ resumes' = out.resumes
            /\ files' = out.files
            /\ last' = out.resp
            /\ UNCHANGED <<inflight, started, runlog>>

\* A process_resume request arrives: it is answered at once (400, 404) or
\* blocks in the parsing call.
ProcessBegin ==
    \E resume_id \in 1..(MaxRows + 1) : \E body \in ProcessBodies :
        \E out \in {process_begin(resumes, resume_id, body)} :
            /\ ~out.done => started < MaxRuns
            /\ resumes' = out.resumes
            /\ inflight' = IF out.done THEN inflight
                           ELSE inflight (+) SetToBag({out.req})
            /\ started' = IF out.done THEN started ELSE started + 1
            /\ last' = IF out.done THEN out.resp ELSE last
            /\ UNCHANGED <<files, runlog>>

\* The parsing call of a blocked request returns (or raises).
ProcessParsed ==
    \E r \in BagToSet(inflight) : \E response \in ParseResponses :
        /\ r.pc = "parse"
        /\ \E out \in {process_parsed(resumes, r, response)} :
               /\ resumes' = out.resumes
               /\ inflight' = IF out.done THEN inflight (-) SetToBag({r})
                              ELSE (inflight (-) SetToBag({r})) (+) SetToBag({out.req})
               /\ last' = IF out.done THEN out.resp ELSE last
               /\ UNCHANGED <<files, started, runlog>>

\* The evaluation call of a blocked request returns (or raises); the row is
\* updated and the request answered.  runlog notes what the LLM returned in
\* this run, whether the run replaced other results, and whether a run on
\* this resume ever ended while another request on it was in flight.
ProcessEvaluated ==
    \E r \in BagToSet(inflight) : \E response \in EvalResponses :
        /\ r.pc = "evaluate"
        /\ \E out \in {process_evaluated(resumes, r, response)} :
           LET before == SelectById(resumes, r.resume_id)
               after  == SelectById(out.resumes, r.resume_id)
               entry  == [parsed_data |-> r.parsed_data,
                          evaluation |-> evaluate_candidate_with_gemini(response),
                          replaced |-> \E b \in before :
                                          b.parsed_data # NULL /\ b \notin after,
                          raced |-> \/ \E q \in BagToSet(inflight (-) SetToBag({r})) :
                                          q.resume_id = r.resume_id
                                    \/ /\ r.resume_id \in DOMAIN runlog
                                       /\ runlog[r.resume_id].raced]
           IN  /\ resumes' = out.resumes
               /\ inflight' = inflight (-) SetToBag({r})
               /\ last' = out.resp
               /\ runlog' = [i \in DOMAIN runlog \cup {r.resume_id} |->
                                IF i = r.resume_id THEN entry ELSE runlog[i]]
               /\ UNCHANGED <<files, started>>

\* GET /candidates
Candidates ==
    \E body \in get_candidates(resumes) :
        /\ last' = [Response("candidates", 200, "") EXCEPT !.candidates = body]
        /\ UNCHANGED <<resumes, files, inflight, started, runlog>>

\* GET /candidate_details/<resume_id>
Details ==
    \E resume_id \in 1..(MaxRows + 1) :
        /\ last' = get_candidate_details(resumes, resume_id)
        /\ UNCHANGED <<resumes, files, inflight, started, runlog>>

Next ==
    \/ Upload
    \/ ProcessBegin
    \/ ProcessParsed
    \/ ProcessEvaluated
    \/ Candidates
    \/ Details

Spec == Init /\ [][Next]_vars

----------------------------------------------------------------------------
(* Properties *)

Rows == {resumes[i] : i \in DOMAIN resumes}
RowsWithId(id) == {row \in Rows : row.id = id}

Uploaded(row) ==
    row.parsed_data = NULL /\ row.score = NULL /\ row.job_match_summary = NULL
Processed(row) ==
    row.parsed_data # NULL /\ row.score # NULL /\ row.job_match_summary # NULL

RECURSIVE Occurs(_, _)
Occurs(e, seq) == seq # <<>> /\ (Head(seq) = e \/ Occurs(e, Tail(seq)))

\* C1: a process_resume request that ends in an error (400, 404, 500) leaves
\* every row of the store as it was, none added, none removed, none changed:
\* neither the step that begins a request nor the step that answers with an
\* error changes the store.
C1_ErrorLeavesStore ==
    [][(\/ last'.op = "process" /\ last'.code # 200
        \/ BagCardinality(inflight') > BagCardinality(inflight))
           => resumes' = resumes]_vars

\* A parse failure was answered with 500 while the one row is still Uploaded.
C1_Witness ==
    /\ last.op = "process" /\ last.code = 500
    /\ last.calls = <<"parse_call", "parse_return">>
    /\ Len(resumes) = 1 /\ Uploaded(resumes[1])

CallOrder == <<"parse_call", "parse_return", "evaluate_call", "evaluate_return", "update">>
Returned(calls) ==
    [i \in DOMAIN calls |-> IF calls[i] = "evaluate_raise" THEN "evaluate_return" ELSE calls[i]]
IsPrefix(a, b) == Len(a) <= Len(b) /\ a = SubSeq(b, 1, Len(a))

C2_CallsInOrder ==
    /\ \A r \in BagToSet(inflight) :
          /\ r.pc = "parse" => r.calls = SubSeq(CallOrder, 1, 1)
          /\ r.pc = "evaluate" => /\ r.calls = SubSeq(CallOrder, 1, 3)
                                  /\ r.parsed_data.t = "dict"
    /\ last.op = "process" =>
          /\ IsPrefix(Returned(last.calls), CallOrder)
          /\ Occurs("evaluate_call", last.calls) => last.code = 200
          /\ last.code = 200 => Returned(last.calls) = CallOrder

\* C2: a request calls the LLM at most twice, the parsing call first and the
\* evaluation call only after a parse that gave a profile; no call is made
\* again; and a request changes the store only once both calls returned.
C2_TwoCallsThenUpdate ==
    /\ []C2_CallsInOrder
    /\ [][(last'.op = "process" /\ resumes' # resumes)
              => Returned(last'.calls) = CallOrder]_vars

\* A request made both calls, the evaluation call returned, and the store was
\* updated after it.
C2_Witness ==
    /\ last.op = "process" /\ last.code = 200
    /\ last.calls = CallOrder
    /\ \E row \in RowsWithId(last.resume_id) : Processed(row)

\* C3: every score present in the store lies in [0, 100].
C3_ScoreInRange ==
    \A row \in Rows : row.score # NULL => (0 <= row.score[1] /\ row.score[1] <= 100)

\* C4: when the evaluation call fails, the request is answered 200 and the
\* row holds the fixed failure narrative, score 0 and this run's parsed_data.
C4_EvaluationFailureStored ==
    (last.op = "process" /\ Occurs("evaluate_raise", last.calls)) =>
        /\ last.code = 200
        /\ Cardinality(RowsWithId(last.resume_id)) = 1
        /\ \A row \in RowsWithId(last.resume_id) :
              /\ row.job_match_summary =
                    Some("Evaluation failed: Could not get a response from Gemini.")
              /\ row.score = Some(0)
              /\ row.parsed_data # NULL
              /\ Loads(row.parsed_data[1]).ok
              /\ Loads(row.parsed_data[1]).v = last.parsed_data

\* The evaluation call raised after a parse that gave a profile.
C4_Witness ==
    /\ last.op = "process" /\ Occurs("evaluate_raise", last.calls)
    /\ last.parsed_data = AnnV
    /\ \E row \in RowsWithId(last.resume_id) : Processed(row)

C5_RunResultsStored ==
    (last.op = "process" /\ last.code = 200) =>
        /\ Cardinality({i \in DOMAIN resumes : resumes[i].id = last.resume_id}) = 1
        /\ \A row \in RowsWithId(last.resume_id) :
              /\ row.parsed_data = Some(Dumps(last.parsed_data))
              /\ row.score = last.score
              /\ row.job_match_summary = Some(last.evaluation)

\* C5: a successful run on a resume leaves exactly one row for its id, with
\* the results of that run and nothing else, also when the row held the
\* results of an earlier run; and the run adds no row.
C5_SecondRunOverwrites ==
    /\ []C5_RunResultsStored
    /\ [][last'.op = "process" => Len(resumes') = Len(resumes)]_vars

\* A second successful run has replaced the results of the first.
C5_Witness ==
    /\ last.op = "process" /\ last.code = 200
    /\ last.resume_id \in DOMAIN runlog
    /\ runlog[last.resume_id].replaced

C6_NoFileLeft ==
    (last.op = "upload" /\ last.code # 200 /\ last.filename # "") =>
        last.filename \notin DOMAIN files

\* C6: a rejected upload (400 for the file type, 500 for empty text) adds no
\* row and leaves no file of the uploaded name in the upload directory.
C6_RejectedUploadLeavesNothing ==
    /\ []C6_NoFileLeft
    /\ [][(last'.op = "upload" /\ last'.code # 200) => resumes' = resumes]_vars

\* An upload was rejected for its empty text after another was accepted.
C6_Witness ==
    /\ last.op = "upload" /\ last.code = 500 /\ last.filename = "B.DOCX"
    /\ Len(resumes) = 1

\* C7: every record's file is still in the upload directory under the
\* record's file name.
C7_FilesRetained ==
    \A row \in Rows : row.filename \in DOMAIN files

C9_Frame ==
    [][/\ \A row \in Rows :
             Cardinality({i \in DOMAIN resumes' :
                             /\ resumes'[i].id = row.id
                             /\ resumes'[i].filename = row.filename
                             /\ resumes'[i].text_content = row.text_content}) = 1
       /\ last'.op = "process" =>
             \A row \in Rows : row.id # last'.resume_id =>
                 \E i \in DOMAIN resumes' : resumes'[i] = row]_vars

\* Of two records, the first was processed and the second is as uploaded.
C9_Witness ==
    /\ Len(resumes) = 2
    /\ last.op = "process" /\ last.code = 200 /\ last.resume_id = 1
    /\ Processed(resumes[1]) /\ Uploaded(resumes[2])

C10_OneRun ==
    \A row \in Rows :
        \/ Uploaded(row)
        \/ /\ Processed(row)
           /\ row.id \in DOMAIN runlog
           /\ row.parsed_data = Some(Dumps(runlog[row.id].parsed_data))
           /\ row.job_match_summary = Some(runlog[row.id].evaluation)
           /\ row.score = Some(ExtractScore(runlog[row.id].evaluation))

\* C10: every record is Uploaded or Processed, also when requests on one
\* resume interleave; the three results of a Processed record are those of one
\* run; and a Processed record stays Processed.
C10_TwoStates ==
    /\ []C10_OneRun
    /\ [][\A i \in DOMAIN resumes :
             Processed(resumes[i]) =>
                 (i \in DOMAIN resumes' /\ Processed(resumes'[i]))]_vars

\* Two requests on the same resume were in flight at once, and the second to
\* end has replaced the results of the first.
C10_Witness ==
    \E row \in Rows :
        /\ Processed(row)
        /\ row.id \in DOMAIN runlog
        /\ runlog[row.id].raced /\ runlog[row.id].replaced
        /\ started = 2 /\ inflight = EmptyBag

=============================================================================
